---- MODULE Spec2Model ----
(***************************************************************************)
(* Model of ExtractionContainers (extractor/extraction_containers.cpp):    *)
(* the containers filled by the extractor callbacks, and PrepareData, the  *)
(* serial sort / merge-join / write pipeline that turns them into the      *)
(* main file, the restrictions file and the name index file.               *)
(***************************************************************************)
EXTENDS Integers, Sequences, FiniteSets, Bags, TLC

(***************************************************************************)
(* Bounds of the model.                                                    *)
(***************************************************************************)
MaxUsed == 2
MaxNodes == 2
MaxEdges == 2
MaxRestrictions == 2
MaxWays == 2
MaxNames == 2
MaxTotal == 4

(***************************************************************************)
(* Program constants.                                                      *)
(***************************************************************************)
\* std::numeric_limits<int>::min()
INT_MIN == -2147483647 - 1
\* Sentinel node id, the maximum unsigned value (all bits set).  It is only
\* ever compared with = and #, so it is written as the 32-bit pattern read
\* as a signed number.
SPECIAL_NODEID == -1
\* Clamp of WriteNames, the literal 255u.
MaxNameLength == 255
\* Value of the enumerator std::ios::beg used in the seek arithmetic.
IosBeg == 0
\* Object sizes in file cells (one cell = one unsigned).
SizeofUnsigned == 1
SizeofFingerPrint == 2
SizeofExternalMemoryNode == 2
SizeofNodeBasedEdge == 2
SizeofTurnRestriction == 2

RecognisedWeightTypes == {"SPEED", "EDGE_DURATION", "WAY_DURATION"}

(***************************************************************************)
(* Generic helpers.                                                        *)
(***************************************************************************)
Max(a, b) == IF a >= b THEN a ELSE b
Min(a, b) == IF a <= b THEN a ELSE b

Range(s) == {s[i] : i \in 1..Len(s)}

RECURSIVE SeqToBag(_)
SeqToBag(s) == IF s = <<>> THEN EmptyBag ELSE SetToBag({Head(s)}) (+) SeqToBag(Tail(s))

IndexPermutations(n) == {p \in [1..n -> 1..n] : \A i, j \in 1..n : i # j => p[i] # p[j]}

\* stxxl::sort: the sequence is left in some order that is ascending under
\* the comparator; the sort is not stable, so every such arrangement of the
\* same records is a possible outcome.  The comparator is given as the set
\* of index pairs <<i, j>> with s[i] less than s[j].
IndexPairs(s) == (1..Len(s)) \X (1..Len(s))
IsSorted(p, less) == \A i \in 1..(Len(p) - 1) : <<p[i + 1], p[i]>> \notin less
stxxl_sort(s, less) ==
    {[i \in 1..Len(s) |-> s[p[i]]] : p \in {q \in IndexPermutations(Len(s)) : IsSorted(q, less)}}

\* std::unique: collapses every run of adjacent equal elements to its first.
RECURSIVE std_unique(_)
std_unique(s) ==
    IF Len(s) <= 1 THEN s
    ELSE IF s[1] = s[2] THEN std_unique(Tail(s))
    ELSE <<s[1]>> \o std_unique(Tail(s))

(***************************************************************************)
(* Comparators handed to stxxl::sort.                                      *)
(***************************************************************************)
Cmp(a, b) == a < b
ExternalMemoryNodeSTXXLCompare(a, b) == a.node_id < b.node_id
CmpEdgeByStartID(a, b) == a.result.source < b.result.source
CmpEdgeByTargetID(a, b) == a.result.target < b.result.target
FirstAndLastSegmentOfWayStxxlCompare(a, b) == a.way_id < b.way_id
CmpRestrictionContainerByFrom(a, b) == a.restriction.from.way < b.restriction.from.way
CmpRestrictionContainerByTo(a, b) == a.restriction.to.way < b.restriction.to.way

(***************************************************************************)
(* Output streams: a sequence of cells and a write position.               *)
(***************************************************************************)
Hole == [kind |-> "hole", part |-> 0]
NewStream == [data |-> <<>>, pos |-> 0]
Object(kind, val, size) == [k \in 1..size |-> [kind |-> kind, part |-> k, val |-> val]]
\* ostream::write at the current position: overwrites what is there and
\* extends the file where it writes past the end.
write(stream, cells) ==
    LET n == Max(Len(stream.data), stream.pos + Len(cells))
    IN  [data |-> [k \in 1..n |->
                     IF k > stream.pos /\ k <= stream.pos + Len(cells) THEN cells[k - stream.pos]
                     ELSE IF k <= Len(stream.data) THEN stream.data[k]
                     ELSE Hole],
         pos |-> stream.pos + Len(cells)]
tellp(stream) == stream.pos
seekp(stream, p) == [stream EXCEPT !.pos = p]

(***************************************************************************)
(* State.                                                                  *)
(***************************************************************************)
VARIABLES
    pc,                     \* position of the control flow
    used_node_id_list,
    all_nodes_list,
    all_edges_list,
    name_list,
    restrictions_list,
    way_start_end_id_list,
    restrictions_out_stream, \* the restrictions file
    file_out_stream,         \* the main file
    name_file_stream,        \* the name index file
    caught,                  \* the catch block of PrepareData ran
    caller                   \* what the caller of PrepareData got back

vars == <<pc, used_node_id_list, all_nodes_list, all_edges_list, name_list,
          restrictions_list, way_start_end_id_list, restrictions_out_stream,
          file_out_stream, name_file_stream, caught, caller>>

containers == <<used_node_id_list, all_nodes_list, all_edges_list, name_list,
                restrictions_list, way_start_end_id_list>>
streams == <<restrictions_out_stream, file_out_stream, name_file_stream>>

\* ExtractionContainers::ExtractionContainers
Init ==
    /\ pc = "filling"
    /\ used_node_id_list = <<>>
    /\ all_nodes_list = <<>>
    /\ all_edges_list = <<>>
    /\ name_list = << <<>> >>
    /\ restrictions_list = <<>>
    /\ way_start_end_id_list = <<>>
    /\ restrictions_out_stream = NewStream
    /\ file_out_stream = NewStream
    /\ name_file_stream = NewStream
    /\ caught = FALSE
    /\ caller = "waiting"

(***************************************************************************)
(* Filling the containers (the extractor callbacks push_back into the      *)
(* public members before PrepareData is called).                           *)
(***************************************************************************)
append_used_node_id(id) ==
    /\ pc = "filling"
    /\ Len(used_node_id_list) < MaxUsed
    /\ used_node_id_list' = Append(used_node_id_list, id)
    /\ UNCHANGED <<pc, all_nodes_list, all_edges_list, name_list, restrictions_list,
                   way_start_end_id_list, streams, caught, caller>>

append_node(node) ==
    /\ pc = "filling"
    /\ Len(all_nodes_list) < MaxNodes
    /\ all_nodes_list' = Append(all_nodes_list, node)
    /\ UNCHANGED <<pc, used_node_id_list, all_edges_list, name_list, restrictions_list,
                   way_start_end_id_list, streams, caught, caller>>

\* An edge is appended with weight 0 and the source coordinate unset.
InternalExtractorEdge(source, target, weight_data) ==
    [result |-> [source |-> source, target |-> target, weight |-> 0],
     source_coordinate |-> [lat |-> INT_MIN, lon |-> INT_MIN],
     weight_data |-> weight_data]

append_edge(source, target, weight_data) ==
    /\ pc = "filling"
    /\ Len(all_edges_list) < MaxEdges
    /\ all_edges_list' = Append(all_edges_list, InternalExtractorEdge(source, target, weight_data))
    /\ UNCHANGED <<pc, used_node_id_list, all_nodes_list, name_list, restrictions_list,
                   way_start_end_id_list, streams, caught, caller>>

\* A restriction is appended with both node fields unresolved.
InputRestrictionContainer(from_way, via_node, to_way) ==
    [restriction |-> [from |-> [way |-> from_way, node |-> SPECIAL_NODEID],
                      via |-> [node |-> via_node],
                      to |-> [way |-> to_way, node |-> SPECIAL_NODEID]]]

append_restriction(from_way, via_node, to_way) ==
    /\ pc = "filling"
    /\ Len(restrictions_list) < MaxRestrictions
    /\ restrictions_list' =
           Append(restrictions_list, InputRestrictionContainer(from_way, via_node, to_way))
    /\ UNCHANGED <<pc, used_node_id_list, all_nodes_list, all_edges_list, name_list,
                   way_start_end_id_list, streams, caught, caller>>

append_way_endpoints(way) ==
    /\ pc = "filling"
    /\ Len(way_start_end_id_list) < MaxWays
    /\ way_start_end_id_list' = Append(way_start_end_id_list, way)
    /\ UNCHANGED <<pc, used_node_id_list, all_nodes_list, all_edges_list, name_list,
                   restrictions_list, streams, caught, caller>>

\* Interning a name appends it to name_list; its index is the name id.
intern_name(name) ==
    /\ pc = "filling"
    /\ Len(name_list) < 1 + MaxNames
    /\ name_list' = Append(name_list, name)
    /\ UNCHANGED <<pc, used_node_id_list, all_nodes_list, all_edges_list, restrictions_list,
                   way_start_end_id_list, streams, caught, caller>>

(***************************************************************************)
(* PrepareData: the call, the exception path and the return.               *)
(***************************************************************************)
CallPrepareData ==
    /\ pc = "filling"
    /\ pc' = "sort_ways"
    /\ UNCHANGED <<containers, streams, caught, caller>>

InTry == {"sort_ways", "fix_restriction_starts", "sort_restrictions_to",
          "fix_restriction_ends", "WriteRestrictions", "open_output", "PrepareNodes",
          "WriteNodes", "sort_edges_by_start", "set_start_coords", "sort_edges_by_target",
          "compute_weights", "WriteEdges", "WriteNames"}

\* A stage raises (the external sort or a scan of an external vector fails,
\* an allocation fails): control leaves the try block at that statement and
\* what the stage had reached so far stays as it is.
StageThrows ==
    /\ pc \in InTry
    /\ pc' = "catch"
    /\ UNCHANGED <<containers, streams, caught, caller>>

\* catch (const std::exception &e) { std::cerr << ... }
CatchException ==
    /\ pc = "catch"
    /\ caught' = TRUE
    /\ pc' = "end_of_PrepareData"
    /\ UNCHANGED <<containers, streams, caller>>

\* The closing brace of PrepareData: a void function returning to its caller.
ReturnFromPrepareData ==
    /\ pc = "end_of_PrepareData"
    /\ caller' = "returned"
    /\ pc' = "done"
    /\ UNCHANGED <<containers, streams, caught>>

(***************************************************************************)
(* PrepareRestrictions.                                                    *)
(***************************************************************************)
\* The two sorts that precede the first merge-join.
SortWaysAndRestrictionsByFrom(here, next) ==
    /\ pc = here
    /\ way_start_end_id_list' \in
           stxxl_sort(way_start_end_id_list,
               {ij \in IndexPairs(way_start_end_id_list) :
                   FirstAndLastSegmentOfWayStxxlCompare(way_start_end_id_list[ij[1]],
                                                        way_start_end_id_list[ij[2]])})
    /\ restrictions_list' \in stxxl_sort(restrictions_list,
               {ij \in IndexPairs(restrictions_list) :
                   CmpRestrictionContainerByFrom(restrictions_list[ij[1]],
                                                 restrictions_list[ij[2]])})
    /\ pc' = next
    /\ UNCHANGED <<used_node_id_list, all_nodes_list, all_edges_list, name_list, streams,
                   caught, caller>>

\* The body of both merge-joins on equal way ids: which neighbour of the via
\* node the way contributes, or the node field as it was.
ResolvedNode(way, via_node_id, node) ==
    IF way.first_segment_source_id = via_node_id THEN way.first_segment_target_id
    ELSE IF way.last_segment_target_id = via_node_id THEN way.last_segment_source_id
    ELSE node

\* The from-walk as it would be if a match advanced the way cursor as well.
RECURSIVE FixStartsLoop_AdvanceBoth(_, _, _)
FixStartsLoop_AdvanceBoth(w, r, restrictions) ==
    IF w > Len(way_start_end_id_list) \/ r > Len(restrictions) THEN restrictions
    ELSE IF way_start_end_id_list[w].way_id < restrictions[r].restriction.from.way
         THEN FixStartsLoop_AdvanceBoth(w + 1, r, restrictions)
    ELSE IF way_start_end_id_list[w].way_id > restrictions[r].restriction.from.way
         THEN FixStartsLoop_AdvanceBoth(w, r + 1, restrictions)
    ELSE FixStartsLoop_AdvanceBoth(w + 1, r + 1,
             [restrictions EXCEPT ![r].restriction.from.node =
                 ResolvedNode(way_start_end_id_list[w], restrictions[r].restriction.via.node, @)])

\* The from-walk as it would be if the resolved neighbour were stored in the
\* via field instead of the from field.
RECURSIVE FixStartsLoop_WritesVia(_, _, _)
FixStartsLoop_WritesVia(w, r, restrictions) ==
    IF w > Len(way_start_end_id_list) \/ r > Len(restrictions) THEN restrictions
    ELSE IF way_start_end_id_list[w].way_id < restrictions[r].restriction.from.way
         THEN FixStartsLoop_WritesVia(w + 1, r, restrictions)
    ELSE IF way_start_end_id_list[w].way_id > restrictions[r].restriction.from.way
         THEN FixStartsLoop_WritesVia(w, r + 1, restrictions)
    ELSE FixStartsLoop_WritesVia(w, r + 1,
             [restrictions EXCEPT ![r].restriction.via.node =
                 ResolvedNode(way_start_end_id_list[w], restrictions[r].restriction.via.node, @)])

\* "Fixing restriction starts": the walk over way_start_end_id_list (cursor
\* w) and restrictions_list (cursor r); the result is the restrictions list.
RECURSIVE FixStartsLoop(_, _, _)
FixStartsLoop(w, r, restrictions) ==
    IF w > Len(way_start_end_id_list) \/ r > Len(restrictions) THEN restrictions
    ELSE IF way_start_end_id_list[w].way_id < restrictions[r].restriction.from.way
         THEN FixStartsLoop(w + 1, r, restrictions)
    ELSE IF way_start_end_id_list[w].way_id > restrictions[r].restriction.from.way
         THEN FixStartsLoop(w, r + 1, restrictions)
    ELSE FixStartsLoop(w, r + 1,
             [restrictions EXCEPT ![r].restriction.from.node =
                 ResolvedNode(way_start_end_id_list[w], restrictions[r].restriction.via.node, @)])

FixRestrictionStarts(here, next) ==
    /\ pc = here
    /\ restrictions_list' = FixStartsLoop(1, 1, restrictions_list)
    /\ pc' = next
    /\ UNCHANGED <<used_node_id_list, all_nodes_list, all_edges_list, name_list,
                   way_start_end_id_list, streams, caught, caller>>

\* The second sort as it would be with the comparator of the first.
SortRestrictionsByTo_ByFrom ==
    /\ pc = "sort_restrictions_to"
    /\ restrictions_list' \in stxxl_sort(restrictions_list,
               {ij \in IndexPairs(restrictions_list) :
                   CmpRestrictionContainerByFrom(restrictions_list[ij[1]],
                                                 restrictions_list[ij[2]])})
    /\ pc' = "fix_restriction_ends"
    /\ UNCHANGED <<used_node_id_list, all_nodes_list, all_edges_list, name_list,
                   way_start_end_id_list, streams, caught, caller>>

SortRestrictionsByTo ==
    /\ pc = "sort_restrictions_to"
    /\ restrictions_list' \in stxxl_sort(restrictions_list,
               {ij \in IndexPairs(restrictions_list) :
                   CmpRestrictionContainerByTo(restrictions_list[ij[1]],
                                               restrictions_list[ij[2]])})
    /\ pc' = "fix_restriction_ends"
    /\ UNCHANGED <<used_node_id_list, all_nodes_list, all_edges_list, name_list,
                   way_start_end_id_list, streams, caught, caller>>

\* "Fixing restriction ends".
RECURSIVE FixEndsLoop(_, _, _)
FixEndsLoop(w, r, restrictions) ==
    IF w > Len(way_start_end_id_list) \/ r > Len(restrictions) THEN restrictions
    ELSE IF way_start_end_id_list[w].way_id < restrictions[r].restriction.to.way
         THEN FixEndsLoop(w + 1, r, restrictions)
    ELSE IF way_start_end_id_list[w].way_id > restrictions[r].restriction.to.way
         THEN FixEndsLoop(w, r + 1, restrictions)
    ELSE FixEndsLoop(w, r + 1,
             [restrictions EXCEPT ![r].restriction.to.node =
                 ResolvedNode(way_start_end_id_list[w], restrictions[r].restriction.via.node, @)])

FixRestrictionEnds ==
    /\ pc = "fix_restriction_ends"
    /\ restrictions_list' = FixEndsLoop(1, 1, restrictions_list)
    /\ pc' = "WriteRestrictions"
    /\ UNCHANGED <<used_node_id_list, all_nodes_list, all_edges_list, name_list,
                   way_start_end_id_list, streams, caught, caller>>

(***************************************************************************)
(* WriteRestrictions.                                                      *)
(***************************************************************************)
\* The writer's filter as it would be with || in place of &&.
IsUsableRestriction_Either(restriction_container) ==
    \/ SPECIAL_NODEID # restriction_container.restriction.from.node
    \/ SPECIAL_NODEID # restriction_container.restriction.to.node

IsUsableRestriction(restriction_container) ==
    /\ SPECIAL_NODEID # restriction_container.restriction.from.node
    /\ SPECIAL_NODEID # restriction_container.restriction.to.node

\* The scan of restrictions_list: the stream and the running count.
RECURSIVE WriteRestrictionsLoop(_, _, _)
WriteRestrictionsLoop(i, stream, written_restriction_count) ==
    IF i > Len(restrictions_list)
    THEN [stream |-> stream, count |-> written_restriction_count]
    ELSE IF IsUsableRestriction(restrictions_list[i])
         THEN WriteRestrictionsLoop(i + 1,
                  write(stream, Object("restriction", restrictions_list[i].restriction,
                                       SizeofTurnRestriction)),
                  written_restriction_count + 1)
    ELSE WriteRestrictionsLoop(i + 1, stream, written_restriction_count)

WriteRestrictions ==
    /\ pc = "WriteRestrictions"
    /\ LET header == write(NewStream, Object("fingerprint", 0, SizeofFingerPrint))
           count_position == tellp(header)
           scanned == WriteRestrictionsLoop(1, write(header, Object("count", 0, SizeofUnsigned)), 0)
       IN  restrictions_out_stream' =
               write(seekp(scanned.stream, count_position),
                     Object("count", scanned.count, SizeofUnsigned))
    /\ pc' = "open_output"
    /\ UNCHANGED <<containers, file_out_stream, name_file_stream, caught, caller>>

(***************************************************************************)
(* The main file: open, PrepareNodes, WriteNodes.                          *)
(***************************************************************************)
\* file_out_stream.open(...); file_out_stream.write(&fingerprint, ...)
OpenOutput ==
    /\ pc = "open_output"
    /\ file_out_stream' = write(NewStream, Object("fingerprint", 0, SizeofFingerPrint))
    /\ pc' = "PrepareNodes"
    /\ UNCHANGED <<containers, restrictions_out_stream, name_file_stream, caught, caller>>

\* PrepareNodes as it would be without the std::unique / resize step.
PrepareNodes_NoUnique ==
    /\ pc = "PrepareNodes"
    /\ used_node_id_list' \in stxxl_sort(used_node_id_list,
               {ij \in IndexPairs(used_node_id_list) :
                   Cmp(used_node_id_list[ij[1]],
                       used_node_id_list[ij[2]])})
    /\ all_nodes_list' \in stxxl_sort(all_nodes_list,
               {ij \in IndexPairs(all_nodes_list) :
                   ExternalMemoryNodeSTXXLCompare(all_nodes_list[ij[1]],
                                                  all_nodes_list[ij[2]])})
    /\ pc' = "WriteNodes"
    /\ UNCHANGED <<all_edges_list, name_list, restrictions_list, way_start_end_id_list,
                   streams, caught, caller>>

PrepareNodes ==
    /\ pc = "PrepareNodes"
    /\ \E sorted_ids \in stxxl_sort(used_node_id_list,
               {ij \in IndexPairs(used_node_id_list) :
                   Cmp(used_node_id_list[ij[1]],
                       used_node_id_list[ij[2]])}) :
           used_node_id_list' = std_unique(sorted_ids)
    /\ all_nodes_list' \in stxxl_sort(all_nodes_list,
               {ij \in IndexPairs(all_nodes_list) :
                   ExternalMemoryNodeSTXXLCompare(all_nodes_list[ij[1]],
                                                  all_nodes_list[ij[2]])})
    /\ pc' = "WriteNodes"
    /\ UNCHANGED <<all_edges_list, name_list, restrictions_list, way_start_end_id_list,
                   streams, caught, caller>>

\* The merge of used_node_id_list (cursor node_id_iterator) and
\* all_nodes_list (cursor node_iterator): the stream and the running count.
RECURSIVE WriteNodesLoop(_, _, _, _)
WriteNodesLoop(node_id_iterator, node_iterator, stream, number_of_used_nodes) ==
    IF node_id_iterator > Len(used_node_id_list) \/ node_iterator > Len(all_nodes_list)
    THEN [stream |-> stream, count |-> number_of_used_nodes]
    ELSE IF used_node_id_list[node_id_iterator] < all_nodes_list[node_iterator].node_id
         THEN WriteNodesLoop(node_id_iterator + 1, node_iterator, stream, number_of_used_nodes)
    ELSE IF used_node_id_list[node_id_iterator] > all_nodes_list[node_iterator].node_id
         THEN WriteNodesLoop(node_id_iterator, node_iterator + 1, stream, number_of_used_nodes)
    ELSE WriteNodesLoop(node_id_iterator + 1, node_iterator + 1,
             write(stream, Object("node", all_nodes_list[node_iterator],
                                  SizeofExternalMemoryNode)),
             number_of_used_nodes + 1)

\* The back-patch as it would be without the final seekp(previous_file_position).
PatchNodeCount_NoRestore(stream, number_of_used_nodes) ==
    write(seekp(stream, IosBeg + SizeofFingerPrint),
          Object("count", number_of_used_nodes, SizeofUnsigned))

\* The back-patch of the node count and the return to the end of the nodes.
PatchNodeCount(stream, number_of_used_nodes) ==
    LET previous_file_position == tellp(stream)
        patched == write(seekp(stream, IosBeg + SizeofFingerPrint),
                         Object("count", number_of_used_nodes, SizeofUnsigned))
    IN  seekp(patched, previous_file_position)

WriteNodes ==
    /\ pc = "WriteNodes"
    /\ LET merged == WriteNodesLoop(1, 1,
                         write(file_out_stream, Object("count", 0, SizeofUnsigned)), 0)
       IN  file_out_stream' = PatchNodeCount(merged.stream, merged.count)
    /\ pc' = "sort_edges_by_start"
    /\ UNCHANGED <<containers, restrictions_out_stream, name_file_stream, caught, caller>>

(***************************************************************************)
(* PrepareEdges.                                                           *)
(***************************************************************************)
SortEdgesByStart ==
    /\ pc = "sort_edges_by_start"
    /\ all_edges_list' \in stxxl_sort(all_edges_list,
               {ij \in IndexPairs(all_edges_list) :
                   CmpEdgeByStartID(all_edges_list[ij[1]],
                                    all_edges_list[ij[2]])})
    /\ pc' = "set_start_coords"
    /\ UNCHANGED <<used_node_id_list, all_nodes_list, name_list, restrictions_list,
                   way_start_end_id_list, streams, caught, caller>>

\* The source walk as it would be if a match advanced both cursors, the way
\* the node-writing merge does.
RECURSIVE SetStartCoordsLoop_AdvanceBoth(_, _, _)
SetStartCoordsLoop_AdvanceBoth(edge_iterator, node_iterator, edges) ==
    IF edge_iterator > Len(edges) \/ node_iterator > Len(all_nodes_list) THEN edges
    ELSE IF edges[edge_iterator].result.source < all_nodes_list[node_iterator].node_id
         THEN SetStartCoordsLoop_AdvanceBoth(edge_iterator + 1, node_iterator, edges)
    ELSE IF edges[edge_iterator].result.source > all_nodes_list[node_iterator].node_id
         THEN SetStartCoordsLoop_AdvanceBoth(edge_iterator, node_iterator + 1, edges)
    ELSE SetStartCoordsLoop_AdvanceBoth(edge_iterator + 1, node_iterator + 1,
             [edges EXCEPT ![edge_iterator].source_coordinate =
                 [lat |-> all_nodes_list[node_iterator].lat,
                  lon |-> all_nodes_list[node_iterator].lon]])

\* "Setting start coords": the walk over all_edges_list (cursor
\* edge_iterator) and all_nodes_list (cursor node_iterator).
RECURSIVE SetStartCoordsLoop(_, _, _)
SetStartCoordsLoop(edge_iterator, node_iterator, edges) ==
    IF edge_iterator > Len(edges) \/ node_iterator > Len(all_nodes_list) THEN edges
    ELSE IF edges[edge_iterator].result.source < all_nodes_list[node_iterator].node_id
         THEN SetStartCoordsLoop(edge_iterator + 1, node_iterator, edges)
    ELSE IF edges[edge_iterator].result.source > all_nodes_list[node_iterator].node_id
         THEN SetStartCoordsLoop(edge_iterator, node_iterator + 1, edges)
    ELSE SetStartCoordsLoop(edge_iterator + 1, node_iterator,
             [edges EXCEPT ![edge_iterator].source_coordinate =
                 [lat |-> all_nodes_list[node_iterator].lat,
                  lon |-> all_nodes_list[node_iterator].lon]])

SetStartCoords ==
    /\ pc = "set_start_coords"
    /\ all_edges_list' = SetStartCoordsLoop(1, 1, all_edges_list)
    /\ pc' = "sort_edges_by_target"
    /\ UNCHANGED <<used_node_id_list, all_nodes_list, name_list, restrictions_list,
                   way_start_end_id_list, streams, caught, caller>>

SortEdgesByTarget ==
    /\ pc = "sort_edges_by_target"
    /\ all_edges_list' \in stxxl_sort(all_edges_list,
               {ij \in IndexPairs(all_edges_list) :
                   CmpEdgeByTargetID(all_edges_list[ij[1]],
                                     all_edges_list[ij[2]])})
    /\ pc' = "compute_weights"
    /\ UNCHANGED <<used_node_id_list, all_nodes_list, name_list, restrictions_list,
                   way_start_end_id_list, streams, caught, caller>>

\* coordinate_calculation::euclidean_distance, a scalar in metres: zero
\* between equal coordinates, one grid step of the model's coordinates apart
\* otherwise.
euclidean_distance(lat1, lon1, lat2, lon2) ==
    IF lat1 = lat2 /\ lon1 = lon2 THEN 0 ELSE 111

\* floor(weight + .5) for the weight the lambda returns.  Durations, speeds
\* and distances are whole numbers here, so
\*   duration * 10.                      rounds to  10 * duration,
\*   (distance * 10.) / (speed / 3.6)    rounds to  (72 * distance + speed) \div (2 * speed),
\* and in the default case the exception object is only constructed, not
\* thrown, so control reaches "return -1.0", which rounds to -1.
RoundedWeight(distance, data) ==
    CASE data.type \in {"EDGE_DURATION", "WAY_DURATION"} -> data.speed_or_duration * 10
      [] data.type = "SPEED" ->
             (72 * distance + data.speed_or_duration) \div (2 * data.speed_or_duration)
      [] OTHER -> -1

\* The source coordinate counts as set when neither component is INT_MIN.
HasSourceCoordinate(edge) ==
    /\ edge.source_coordinate.lat # INT_MIN
    /\ edge.source_coordinate.lon # INT_MIN

\* "Computing edge weights".
RECURSIVE ComputeWeightsLoop(_, _, _)
ComputeWeightsLoop(edge_iterator, node_iterator, edges) ==
    IF edge_iterator > Len(edges) \/ node_iterator > Len(all_nodes_list) THEN edges
    ELSE IF edges[edge_iterator].result.target < all_nodes_list[node_iterator].node_id
         THEN ComputeWeightsLoop(edge_iterator + 1, node_iterator, edges)
    ELSE IF edges[edge_iterator].result.target > all_nodes_list[node_iterator].node_id
         THEN ComputeWeightsLoop(edge_iterator, node_iterator + 1, edges)
    ELSE IF HasSourceCoordinate(edges[edge_iterator])
         THEN LET distance == euclidean_distance(edges[edge_iterator].source_coordinate.lat,
                                                 edges[edge_iterator].source_coordinate.lon,
                                                 all_nodes_list[node_iterator].lat,
                                                 all_nodes_list[node_iterator].lon)
                  integer_weight ==
                      Max(1, RoundedWeight(distance, edges[edge_iterator].weight_data))
              IN  ComputeWeightsLoop(edge_iterator + 1, node_iterator,
                      [edges EXCEPT ![edge_iterator].result.weight = integer_weight])
    ELSE ComputeWeightsLoop(edge_iterator + 1, node_iterator, edges)

ComputeEdgeWeights ==
    /\ pc = "compute_weights"
    /\ all_edges_list' = ComputeWeightsLoop(1, 1, all_edges_list)
    /\ pc' = "WriteEdges"
    /\ UNCHANGED <<used_node_id_list, all_nodes_list, name_list, restrictions_list,
                   way_start_end_id_list, streams, caught, caller>>

(***************************************************************************)
(* WriteEdges.                                                             *)
(***************************************************************************)
RECURSIVE WriteEdgesLoop(_, _, _)
WriteEdgesLoop(i, stream, number_of_used_edges) ==
    IF i > Len(all_edges_list) THEN [stream |-> stream, count |-> number_of_used_edges]
    ELSE IF all_edges_list[i].result.weight > 0
         THEN WriteEdgesLoop(i + 1,
                  write(stream, Object("edge", all_edges_list[i].result, SizeofNodeBasedEdge)),
                  number_of_used_edges + 1)
    ELSE WriteEdgesLoop(i + 1, stream, number_of_used_edges)

WriteEdges ==
    /\ pc = "WriteEdges"
    /\ LET start_position == tellp(file_out_stream)
           scanned == WriteEdgesLoop(1,
                          write(file_out_stream, Object("count", 0, SizeofUnsigned)), 0)
       IN  file_out_stream' =
               write(seekp(scanned.stream, start_position),
                     Object("count", scanned.count, SizeofUnsigned))
    /\ pc' = "WriteNames"
    /\ UNCHANGED <<containers, restrictions_out_stream, name_file_stream, caught, caller>>

(***************************************************************************)
(* WriteNames (the main file is closed just before).                       *)
(***************************************************************************)
\* The length as it would be without the std::min(..., 255u).
ClampedLength_NoClamp(temp_string) == Len(temp_string)

\* std::min(static_cast<unsigned>(temp_string.length()), 255u); the cast and
\* the unsigned total do not wrap at the lengths that occur here.
ClampedLength(temp_string) == Min(Len(temp_string), MaxNameLength)

\* The first loop: name_lengths and total_length.
RECURSIVE NameLengthsLoop(_, _, _)
NameLengthsLoop(i, name_lengths, total_length) ==
    IF i > Len(name_list) THEN [name_lengths |-> name_lengths, total_length |-> total_length]
    ELSE NameLengthsLoop(i + 1, Append(name_lengths, ClampedLength(name_list[i])),
                         total_length + ClampedLength(name_list[i]))

\* name_file_stream.write(temp_string.c_str(), string_length)
Chars(temp_string, string_length) ==
    [k \in 1..string_length |-> [kind |-> "char", part |-> 1, val |-> temp_string[k]]]

\* The second loop: all chars consecutively.
RECURSIVE WriteCharsLoop(_, _)
WriteCharsLoop(i, stream) ==
    IF i > Len(name_list) THEN stream
    ELSE WriteCharsLoop(i + 1, write(stream, Chars(name_list[i], ClampedLength(name_list[i]))))

WriteNames ==
    /\ pc = "WriteNames"
    /\ LET lengths == NameLengthsLoop(1, <<>>, 0)
           index == write(NewStream, Object("range_table", lengths.name_lengths, 1))
           counted == write(index, Object("total_length", lengths.total_length, SizeofUnsigned))
       IN  name_file_stream' = WriteCharsLoop(1, counted)
    /\ pc' = "end_of_PrepareData"
    /\ UNCHANGED <<containers, restrictions_out_stream, file_out_stream, caught, caller>>

\* The stages of PrepareData.
Pipeline ==
    \/ CallPrepareData
    \/ SortWaysAndRestrictionsByFrom("sort_ways", "fix_restriction_starts")
    \/ FixRestrictionStarts("fix_restriction_starts", "sort_restrictions_to")
    \/ SortRestrictionsByTo
    \/ FixRestrictionEnds
    \/ WriteRestrictions
    \/ OpenOutput
    \/ PrepareNodes
    \/ WriteNodes
    \/ SortEdgesByStart
    \/ SetStartCoords
    \/ SortEdgesByTarget
    \/ ComputeEdgeWeights
    \/ WriteEdges
    \/ WriteNames
    \/ StageThrows
    \/ CatchException
    \/ ReturnFromPrepareData

(***************************************************************************)
(* Inputs of the specifications.                                           *)
(***************************************************************************)
NodeIdValues == {1, 2, 3}
CoordinateValues == {[lat |-> 0, lon |-> 0], [lat |-> 1, lon |-> 0]}
ExternalMemoryNode(id, c) == [node_id |-> id, lat |-> c.lat, lon |-> c.lon]

\* Nodes and used node ids.
NextNodes ==
    \/ \E id \in NodeIdValues : append_used_node_id(id)
    \/ \E id \in NodeIdValues, c \in CoordinateValues : append_node(ExternalMemoryNode(id, c))
    \/ Pipeline

SpecNodes == Init /\ [][NextNodes]_vars

\* Nodes and edges: edges between nodes 1 and 2 and towards node 3, of every
\* weight type and of one that is none of the recognised ones; node 2 may also
\* carry an INT_MIN latitude.
EdgeEndValues == {<<1, 2>>, <<2, 1>>, <<1, 3>>}
WeightDataValues ==
    {[type |-> "SPEED", speed_or_duration |-> 36],
     [type |-> "EDGE_DURATION", speed_or_duration |-> 5],
     [type |-> "WAY_DURATION", speed_or_duration |-> 7],
     [type |-> "INVALID", speed_or_duration |-> 0]}
EdgeNodeValues ==
    {[node_id |-> 1, lat |-> 0, lon |-> 0],
     [node_id |-> 2, lat |-> 1, lon |-> 0],
     [node_id |-> 2, lat |-> INT_MIN, lon |-> 0]}

NextEdges ==
    \/ \E node \in EdgeNodeValues : append_node(node)
    \/ \E ends \in EdgeEndValues, data \in WeightDataValues :
           append_edge(ends[1], ends[2], data)
    \/ Pipeline

SpecEdges == Init /\ [][NextEdges]_vars

\* The main file as a whole: used ids, nodes and edges together.
MainNodeValues == {[node_id |-> 1, lat |-> 0, lon |-> 0], [node_id |-> 2, lat |-> 1, lon |-> 0]}
MainEdgeValues == {<<1, 2>>, <<2, 1>>, <<2, 3>>}

NextMain ==
    \/ \E id \in {1, 2} : append_used_node_id(id)
    \/ \E node \in MainNodeValues : append_node(node)
    \/ \E ends \in MainEdgeValues :
           append_edge(ends[1], ends[2], [type |-> "SPEED", speed_or_duration |-> 36])
    \/ Pipeline

SpecMain == Init /\ [][NextMain]_vars

\* Restrictions and way end points.  A way is given by its id and the four
\* node ids of its first and last segment.
WayEndpoints(way_id, shape) ==
    [way_id |-> way_id,
     first_segment_source_id |-> shape[1], first_segment_target_id |-> shape[2],
     last_segment_source_id |-> shape[3], last_segment_target_id |-> shape[4]]
WayIdValues == {10, 11}
WayShapeValues == {<<1, 2, 3, 4>>, <<4, 5, 6, 7>>}
RestrictionValues == {<<10, 1, 11>>, <<10, 4, 11>>, <<11, 4, 10>>, <<10, 1, 10>>,
                      <<11, 1, 10>>, <<10, 4, 12>>}

NextRestrictions ==
    \/ \E way_id \in WayIdValues, shape \in WayShapeValues :
           append_way_endpoints(WayEndpoints(way_id, shape))
    \/ \E r \in RestrictionValues : append_restriction(r[1], r[2], r[3])
    \/ Pipeline

SpecRestrictions == Init /\ [][NextRestrictions]_vars

\* Names: short ones, and ones on both sides of the 255 clamp.
LongName(n) == [k \in 1..n |-> 97 + (k % 3)]
NameValues == {<<>>, <<65>>, <<66, 67>>, LongName(MaxNameLength),
               LongName(MaxNameLength + 1), LongName(MaxNameLength + 45)}

NextNames ==
    \/ \E name \in NameValues : intern_name(name)
    \/ Pipeline

SpecNames == Init /\ [][NextNames]_vars

\* Every container at once, a few records in total.
TotalAppended ==
    Len(used_node_id_list) + Len(all_nodes_list) + Len(all_edges_list)
        + Len(restrictions_list) + Len(way_start_end_id_list) + (Len(name_list) - 1)

NextAll ==
    \/ /\ TotalAppended < MaxTotal
       /\ \/ \E id \in {1, 2} : append_used_node_id(id)
          \/ \E node \in MainNodeValues : append_node(node)
          \/ \E ends \in {<<1, 2>>, <<2, 1>>} :
                 append_edge(ends[1], ends[2], [type |-> "SPEED", speed_or_duration |-> 36])
          \/ \E r \in {<<10, 1, 11>>, <<11, 4, 10>>} : append_restriction(r[1], r[2], r[3])
          \/ \E way_id \in WayIdValues : append_way_endpoints(WayEndpoints(way_id, <<1, 2, 3, 4>>))
          \/ intern_name(<<65>>)
    \/ Pipeline

Spec == Init /\ [][NextAll]_vars

\* Pass A of the restriction resolver alone, run twice in a row.  A way of a
\* single segment has the same two nodes as its first and its last segment.
PassAShapeValues == {<<1, 2, 3, 4>>, <<1, 4, 1, 4>>}
PassARestrictionValues == {<<10, 1, 11>>, <<10, 4, 11>>, <<11, 1, 10>>, <<11, 4, 10>>,
                           <<10, 9, 11>>}

NextPassA ==
    \/ \E way_id \in WayIdValues, shape \in PassAShapeValues :
           append_way_endpoints(WayEndpoints(way_id, shape))
    \/ \E r \in PassARestrictionValues : append_restriction(r[1], r[2], r[3])
    \/ CallPrepareData
    \/ SortWaysAndRestrictionsByFrom("sort_ways", "fix_restriction_starts")
    \/ FixRestrictionStarts("fix_restriction_starts", "rerun_sort_ways")
    \/ SortWaysAndRestrictionsByFrom("rerun_sort_ways", "rerun_fix_restriction_starts")
    \/ FixRestrictionStarts("rerun_fix_restriction_starts", "rerun_done")

SpecPassA == Init /\ [][NextPassA]_vars

(***************************************************************************)
(* Vocabulary of the properties.                                           *)
(***************************************************************************)
\* PrepareData got past the given stage: control is further down the try
\* block, or left it by its end.
AfterWriteEdges == pc = "WriteNames" \/ (pc \in {"end_of_PrepareData", "done"} /\ ~caught)
AfterComputeWeights == pc = "WriteEdges" \/ AfterWriteEdges
AfterWriteNodes ==
    \/ pc \in {"sort_edges_by_start", "set_start_coords", "sort_edges_by_target",
               "compute_weights"}
    \/ AfterComputeWeights
AfterWriteRestrictions == pc \in {"open_output", "PrepareNodes", "WriteNodes"} \/ AfterWriteNodes
AfterPrepareRestrictions == pc = "WriteRestrictions" \/ AfterWriteRestrictions
AfterWriteNames == pc \in {"end_of_PrepareData", "done"} /\ ~caught
CompletedWithoutError == pc = "done" /\ ~caught

UsedIds == Range(used_node_id_list)
NodeIds == {all_nodes_list[i].node_id : i \in 1..Len(all_nodes_list)}
MainData == file_out_stream.data
\* Places in a file where a record of the given kind starts.
RecordStarts(data, kind) == {k \in 1..Len(data) : data[k].kind = kind /\ data[k].part = 1}
\* A whole object of the given kind and size lies at cells from + 1 .. from + size.
ObjectAt(data, from, kind, size) ==
    /\ Len(data) >= from + size
    /\ \A k \in 1..size : data[from + k].kind = kind /\ data[from + k].part = k
\* Records of the given kind and size fill the cells from + 1 .. from + n * size.
RecordsAt(data, from, kind, size, n) ==
    \A i \in 0..(n - 1) :
        /\ ObjectAt(data, from + i * size, kind, size)
        /\ \A k \in 2..size : data[from + i * size + k].val = data[from + i * size + 1].val
NodeCountField == MainData[SizeofFingerPrint + 1].val
NodesEnd == SizeofFingerPrint + SizeofUnsigned + NodeCountField * SizeofExternalMemoryNode
EdgeCountField == MainData[NodesEnd + 1].val

(***************************************************************************)
(* C1.  After PrepareNodes and WriteNodes the node count in the main file  *)
(* is the number of distinct ids that are both in used_node_id_list and a  *)
(* node_id of all_nodes_list, exactly one node record is written for each  *)
(* such id (a record of all_nodes_list), and none for any other id.        *)
(***************************************************************************)
C1_NodeCountIsIntersection ==
    AfterWriteNodes =>
        /\ ObjectAt(MainData, SizeofFingerPrint, "count", SizeofUnsigned)
        /\ NodeCountField = Cardinality(UsedIds \cap NodeIds)
        /\ \A id \in UsedIds \cap NodeIds :
               Cardinality({k \in RecordStarts(MainData, "node") :
                               MainData[k].val.node_id = id}) = 1
        /\ \A k \in RecordStarts(MainData, "node") :
               /\ MainData[k].val.node_id \in UsedIds \cap NodeIds
               /\ MainData[k].val \in Range(all_nodes_list)

\* Two node records share an id, the id is used, and one of them is written.
C1_Witness ==
    /\ pc = "sort_edges_by_start"
    /\ Len(all_nodes_list) = 2
    /\ all_nodes_list[1].node_id = all_nodes_list[2].node_id
    /\ all_nodes_list[1] # all_nodes_list[2]
    /\ NodeCountField = 1

(***************************************************************************)
(* C2.  When PrepareData completes without error the main file is exactly  *)
(* FingerPrint, node count, that many node records, edge count, that many  *)
(* edge records: both counts sit where the layout puts them, equal the     *)
(* number of records written, and no back-patch overwrote a record.        *)
(***************************************************************************)
C2_MainFileLayout ==
    CompletedWithoutError =>
        /\ ObjectAt(MainData, 0, "fingerprint", SizeofFingerPrint)
        /\ ObjectAt(MainData, SizeofFingerPrint, "count", SizeofUnsigned)
        /\ RecordsAt(MainData, SizeofFingerPrint + SizeofUnsigned, "node",
                     SizeofExternalMemoryNode, NodeCountField)
        /\ ObjectAt(MainData, NodesEnd, "count", SizeofUnsigned)
        /\ RecordsAt(MainData, NodesEnd + SizeofUnsigned, "edge", SizeofNodeBasedEdge,
                     EdgeCountField)
        /\ Len(MainData) = NodesEnd + SizeofUnsigned + EdgeCountField * SizeofNodeBasedEdge
        /\ NodeCountField = Cardinality(RecordStarts(MainData, "node"))
        /\ EdgeCountField = Cardinality(RecordStarts(MainData, "edge"))
        /\ NodeCountField = Cardinality(UsedIds \cap NodeIds)
        /\ EdgeCountField =
               Cardinality({i \in 1..Len(all_edges_list) : all_edges_list[i].result.weight > 0})

\* A complete run that wrote two node records and an edge record.
C2_Witness ==
    /\ CompletedWithoutError
    /\ NodeCountField = 2
    /\ EdgeCountField >= 1
    /\ Len(all_edges_list) > EdgeCountField

(***************************************************************************)
(* C3.  With no INT_MIN coordinate among the nodes, after PrepareNodes,    *)
(* PrepareEdges and WriteEdges an edge of a recognised weight type is in   *)
(* the main file exactly when its source and its target are node ids of    *)
(* all_nodes_list: per pair of end points, no edge is written when one end *)
(* is absent, and otherwise every edge of a recognised type is written     *)
(* once; the edge count counts the edge records written.                   *)
(***************************************************************************)
NoIntMinNode ==
    \A i \in 1..Len(all_nodes_list) :
        all_nodes_list[i].lat # INT_MIN /\ all_nodes_list[i].lon # INT_MIN
EdgeEnds == {<<all_edges_list[i].result.source, all_edges_list[i].result.target>> :
                i \in 1..Len(all_edges_list)}
WrittenEdges(ends) ==
    Cardinality({k \in RecordStarts(MainData, "edge") :
                    MainData[k].val.source = ends[1] /\ MainData[k].val.target = ends[2]})
InputEdges(ends, types) ==
    Cardinality({i \in 1..Len(all_edges_list) :
                    /\ all_edges_list[i].result.source = ends[1]
                    /\ all_edges_list[i].result.target = ends[2]
                    /\ all_edges_list[i].weight_data.type \in types})

C3_EdgeWrittenIffBothEndsPresent ==
    (AfterWriteEdges /\ NoIntMinNode) =>
        /\ \A ends \in EdgeEnds :
               IF ends[1] \in NodeIds /\ ends[2] \in NodeIds
               THEN /\ InputEdges(ends, RecognisedWeightTypes) <= WrittenEdges(ends)
                    /\ WrittenEdges(ends)
                           <= InputEdges(ends, RecognisedWeightTypes \cup {"INVALID"})
               ELSE WrittenEdges(ends) = 0
        /\ \A k \in RecordStarts(MainData, "edge") :
               <<MainData[k].val.source, MainData[k].val.target>> \in EdgeEnds
        /\ ObjectAt(MainData, NodesEnd, "count", SizeofUnsigned)
        /\ EdgeCountField = Cardinality(RecordStarts(MainData, "edge"))

\* Two edges of recognised types, one between present nodes (written), one
\* towards an absent node (not written).
C3_Witness ==
    /\ AfterWriteEdges
    /\ NoIntMinNode
    /\ Len(all_edges_list) = 2
    /\ \A i \in 1..2 : all_edges_list[i].weight_data.type \in RecognisedWeightTypes
    /\ \E i \in 1..2 : all_edges_list[i].result.target \notin NodeIds
    /\ EdgeCountField = 1

(***************************************************************************)
(* C6.  An edge whose weight type is none of SPEED, EDGE_DURATION,         *)
(* WAY_DURATION and whose source and target both resolve makes PrepareEdges*)
(* fail: the run does not get past the weight computation, the edge keeps  *)
(* weight 0 and no such edge is written.                                   *)
(***************************************************************************)
ResolvableInvalidEdge(i) ==
    /\ all_edges_list[i].weight_data.type \notin RecognisedWeightTypes
    /\ all_edges_list[i].result.source \in NodeIds
    /\ all_edges_list[i].result.target \in NodeIds

C6_InvalidWeightTypeIsFatal ==
    (NoIntMinNode /\ \E i \in 1..Len(all_edges_list) : ResolvableInvalidEdge(i)) =>
        /\ ~AfterComputeWeights
        /\ \A i \in 1..Len(all_edges_list) :
               ResolvableInvalidEdge(i) => all_edges_list[i].result.weight = 0

(***************************************************************************)
(* C4.  With unique way ids in way_start_end_id_list, after                *)
(* PrepareRestrictions every restriction has, on its from side and on its  *)
(* to side: if a way record carries the side's way id, the node field is   *)
(* the first segment's target when via is the first segment's source, else *)
(* the last segment's source when via is the last segment's target, else   *)
(* still SPECIAL_NODEID.  Restrictions sharing a way are all resolved.     *)
(***************************************************************************)
UniqueWayIds ==
    \A i, j \in 1..Len(way_start_end_id_list) :
        way_start_end_id_list[i].way_id = way_start_end_id_list[j].way_id => i = j
ExpectedNode(e, via_node) ==
    IF via_node = e.first_segment_source_id THEN e.first_segment_target_id
    ELSE IF via_node = e.last_segment_target_id THEN e.last_segment_source_id
    ELSE SPECIAL_NODEID

C4_RestrictionNodesResolved ==
    (AfterPrepareRestrictions /\ UniqueWayIds) =>
        \A i \in 1..Len(restrictions_list) : \A j \in 1..Len(way_start_end_id_list) :
            LET r == restrictions_list[i].restriction
                e == way_start_end_id_list[j]
            IN  /\ e.way_id = r.from.way => r.from.node = ExpectedNode(e, r.via.node)
                /\ e.way_id = r.to.way => r.to.node = ExpectedNode(e, r.via.node)

\* Two restrictions leave the same way, one at each of its ends, and both
\* were resolved.
C4_Witness ==
    /\ AfterPrepareRestrictions
    /\ UniqueWayIds
    /\ Len(restrictions_list) = 2
    /\ restrictions_list[1].restriction.from.way = restrictions_list[2].restriction.from.way
    /\ restrictions_list[1].restriction.from.node # SPECIAL_NODEID
    /\ restrictions_list[2].restriction.from.node # SPECIAL_NODEID
    /\ restrictions_list[1].restriction.from.node # restrictions_list[2].restriction.from.node
    /\ \E i \in 1..2 : restrictions_list[i].restriction.to.node # SPECIAL_NODEID

(***************************************************************************)
(* C5.  After PrepareRestrictions and WriteRestrictions the restrictions   *)
(* file is the FingerPrint, the count, and exactly the restrictions whose  *)
(* from.node and to.node are both resolved, in list order; the count is    *)
(* their number; a restriction one of whose ways has no record, or whose   *)
(* via matches neither end of any record of that way, is not among them.   *)
(***************************************************************************)
RestrictionData == restrictions_out_stream.data
RestrictionCountField == RestrictionData[SizeofFingerPrint + 1].val
WrittenRestrictions ==
    [i \in 1..RestrictionCountField |->
        RestrictionData[SizeofFingerPrint + SizeofUnsigned
                            + (i - 1) * SizeofTurnRestriction + 1].val]
RECURSIVE ResolvedRestrictions(_)
ResolvedRestrictions(list) ==
    IF list = <<>> THEN <<>>
    ELSE IF Head(list).restriction.from.node # SPECIAL_NODEID
            /\ Head(list).restriction.to.node # SPECIAL_NODEID
         THEN <<Head(list).restriction>> \o ResolvedRestrictions(Tail(list))
    ELSE ResolvedRestrictions(Tail(list))
\* No record of the way attaches it to the via node.
Unattached(way, via_node) ==
    \A j \in 1..Len(way_start_end_id_list) :
        way_start_end_id_list[j].way_id = way =>
            /\ via_node # way_start_end_id_list[j].first_segment_source_id
            /\ via_node # way_start_end_id_list[j].last_segment_target_id

C5_OnlyResolvedRestrictionsWritten ==
    AfterWriteRestrictions =>
        /\ ObjectAt(RestrictionData, 0, "fingerprint", SizeofFingerPrint)
        /\ ObjectAt(RestrictionData, SizeofFingerPrint, "count", SizeofUnsigned)
        /\ RecordsAt(RestrictionData, SizeofFingerPrint + SizeofUnsigned, "restriction",
                     SizeofTurnRestriction, RestrictionCountField)
        /\ Len(RestrictionData) = SizeofFingerPrint + SizeofUnsigned
                                      + RestrictionCountField * SizeofTurnRestriction
        /\ WrittenRestrictions = ResolvedRestrictions(restrictions_list)
        /\ \A i \in 1..Len(restrictions_list) :
               LET r == restrictions_list[i].restriction
               IN  (Unattached(r.from.way, r.via.node) \/ Unattached(r.to.way, r.via.node)) =>
                       \A k \in 1..RestrictionCountField :
                           \/ WrittenRestrictions[k].from.way # r.from.way
                           \/ WrittenRestrictions[k].via.node # r.via.node
                           \/ WrittenRestrictions[k].to.way # r.to.way

\* Of two restrictions one is written; the other, resolved on one side only,
\* is not.
C5_Witness ==
    /\ AfterWriteRestrictions
    /\ Len(restrictions_list) = 2
    /\ RestrictionCountField = 1
    /\ \E i \in 1..2 :
           /\ restrictions_list[i].restriction.from.node # SPECIAL_NODEID
           /\ restrictions_list[i].restriction.to.node = SPECIAL_NODEID

(***************************************************************************)
(* C8.  Running pass A (sort the ways, sort the restrictions by from.way,  *)
(* merge-join) again on its own result leaves the restrictions as they     *)
(* were: the same from.node for every restriction, the other fields and    *)
(* the multiset of restrictions unchanged.                                 *)
(***************************************************************************)
InSecondRun == pc \in {"rerun_sort_ways", "rerun_fix_restriction_starts"}

\* As claimed, for every content of way_start_end_id_list.
C8_PassAIdempotent ==
    [][InSecondRun => SeqToBag(restrictions_list') = SeqToBag(restrictions_list)]_vars

\* As amended: when no two way records share a way id.
C8_PassAIdempotentUniqueWays ==
    [][(InSecondRun /\ UniqueWayIds) =>
           SeqToBag(restrictions_list') = SeqToBag(restrictions_list)]_vars

\* The second run is over, the way ids are unique and the first run had
\* resolved one restriction and left another unresolved.
C8_Witness ==
    /\ pc = "rerun_done"
    /\ UniqueWayIds
    /\ Len(way_start_end_id_list) = 2
    /\ \E i \in 1..Len(restrictions_list) :
           restrictions_list[i].restriction.from.node # SPECIAL_NODEID
    /\ \E i \in 1..Len(restrictions_list) :
           restrictions_list[i].restriction.from.node = SPECIAL_NODEID

(***************************************************************************)
(* C9.  name_list[0] is the empty string in every state; WriteNames writes,*)
(* after the range table, a total length equal to the sum of               *)
(* min(length, 255) over name_list, then the first min(length, 255) bytes  *)
(* of each name in insertion order, nothing between them and nothing after.*)
(***************************************************************************)
NameData == name_file_stream.data
RECURSIVE SumOfClampedLengths(_)
SumOfClampedLengths(names) ==
    IF names = <<>> THEN 0
    ELSE (IF Len(Head(names)) > 255 THEN 255 ELSE Len(Head(names)))
             + SumOfClampedLengths(Tail(names))
RECURSIVE ClampedConcatenation(_)
ClampedConcatenation(names) ==
    IF names = <<>> THEN <<>>
    ELSE SubSeq(Head(names), 1, IF Len(Head(names)) > 255 THEN 255 ELSE Len(Head(names)))
             \o ClampedConcatenation(Tail(names))

C9_NameIndexContents ==
    /\ name_list[1] = <<>>
    /\ AfterWriteNames =>
           /\ Len(NameData) = 1 + SizeofUnsigned + SumOfClampedLengths(name_list)
           /\ NameData[1].kind = "range_table"
           /\ ObjectAt(NameData, 1, "total_length", SizeofUnsigned)
           /\ NameData[2].val = SumOfClampedLengths(name_list)
           /\ \A k \in 1..SumOfClampedLengths(name_list) :
                  /\ NameData[1 + SizeofUnsigned + k].kind = "char"
                  /\ NameData[1 + SizeofUnsigned + k].val = ClampedConcatenation(name_list)[k]

\* A name longer than 255 bytes was written in front of a short one.
C9_Witness ==
    /\ AfterWriteNames
    /\ Len(name_list) = 3
    /\ Len(name_list[2]) > 255
    /\ Len(name_list[3]) = 2

(***************************************************************************)
(* C10.  Whenever one of the five merge-join walks is about to start, both *)
(* sequences it walks are sorted ascending by the join key; the way end    *)
(* points are not touched between the two restriction walks, and           *)
(* all_nodes_list is not touched from the end of PrepareNodes to the last  *)
(* edge walk.                                                              *)
(***************************************************************************)
Ascending(keys) == \A i, j \in 1..Len(keys) : i < j => keys[i] <= keys[j]
WayKeys == [i \in 1..Len(way_start_end_id_list) |-> way_start_end_id_list[i].way_id]
NodeKeys == [i \in 1..Len(all_nodes_list) |-> all_nodes_list[i].node_id]
FromKeys == [i \in 1..Len(restrictions_list) |-> restrictions_list[i].restriction.from.way]
ToKeys == [i \in 1..Len(restrictions_list) |-> restrictions_list[i].restriction.to.way]
SourceKeys == [i \in 1..Len(all_edges_list) |-> all_edges_list[i].result.source]
TargetKeys == [i \in 1..Len(all_edges_list) |-> all_edges_list[i].result.target]

WalkInputsSorted ==
    /\ pc = "fix_restriction_starts" => Ascending(WayKeys) /\ Ascending(FromKeys)
    /\ pc = "fix_restriction_ends" => Ascending(WayKeys) /\ Ascending(ToKeys)
    /\ pc = "WriteNodes" => Ascending(used_node_id_list) /\ Ascending(NodeKeys)
    /\ pc = "set_start_coords" => Ascending(SourceKeys) /\ Ascending(NodeKeys)
    /\ pc = "compute_weights" => Ascending(TargetKeys) /\ Ascending(NodeKeys)

C10_WalksStartOnSortedInputs ==
    /\ []WalkInputsSorted
    /\ [][/\ pc \in {"fix_restriction_starts", "sort_restrictions_to", "fix_restriction_ends"} =>
                 way_start_end_id_list' = way_start_end_id_list
          /\ pc \in {"WriteNodes", "sort_edges_by_start", "set_start_coords",
                     "sort_edges_by_target", "compute_weights"} =>
                 all_nodes_list' = all_nodes_list]_vars

\* The target walk is about to start over two nodes and two edges with
\* different targets.
C10_Witness ==
    /\ pc = "compute_weights"
    /\ Len(all_nodes_list) = 2
    /\ all_nodes_list[1].node_id # all_nodes_list[2].node_id
    /\ Len(all_edges_list) = 2
    /\ all_edges_list[1].result.target # all_edges_list[2].result.target

(***************************************************************************)
(* C7.  When a stage raised inside PrepareData, the caller does not get a  *)
(* normal return.                                                          *)
(***************************************************************************)
C7_FailureReachesCaller == caught => caller # "returned"

====
